---- MODULE Spec2Model ----
(***************************************************************************)
(* Model of share_capacity.py: the exposure report of a storage cluster.   *)
(*                                                                         *)
(*   Spec      one run of main(): argument resolution, the external calls, *)
(*             row construction, the report that is written.               *)
(*   SpecDedup deduplicate_rows applied to bounded row sequences.          *)
(*   SpecMeta  get_user_metadata applied to bounded page sequences.        *)
(*                                                                         *)
(* Python floats are modelled as exact normalised rationals [n, d].        *)
(* Python dicts are modelled as sequences of <<key, value>> pairs in       *)
(* insertion order.                                                        *)
(***************************************************************************)
EXTENDS Integers, Sequences, FiniteSets, TLC

VARIABLES
    pc,            \* position of main(), or of the function under test
    args,          \* argparse namespace: host, access_token, enumerate_exposures
    config_file,   \* the .config file on disk
    host,          \* main: host
    access_token,  \* main: access_token
    conn,          \* main: conn
    output_csv,    \* main: output_csv (the mode suffix of the file name)
    free_space,    \* main: free_space
    usable_space,  \* main: usable_space
    smb_shares,    \* main: smb_shares
    nfs_exports,   \* main: nfs_exports
    s3_buckets,    \* main: s3_buckets
    phase,         \* which of the three loops main is in (1 SMB, 2 NFS, 3 S3)
    idx,           \* position of the running for loop in its list
    cur,           \* locals of process_exposure_item between its two calls
    data_rows,     \* main: data_rows
    calls,         \* log of the external calls made so far
    files,         \* the files opened for writing, with what was written
    stdout,        \* lines printed
    exit_status,   \* <<>> while running, <<status>> once the process has ended
    rows_in,       \* SpecDedup: argument of deduplicate_rows
    dedup_out,     \* SpecDedup: its return value
    pages_in,      \* SpecMeta: pages yielded by fs.list_user_metadata
    meta_out       \* SpecMeta: outcome of get_user_metadata

vars == <<pc, args, config_file, host, access_token, conn, output_csv,
          free_space, usable_space, smb_shares, nfs_exports, s3_buckets, phase,
          idx, cur, data_rows, calls, files, stdout, exit_status,
          rows_in, dedup_out, pages_in, meta_out>>

mainVars == <<args, config_file, host, access_token, conn, output_csv,
              free_space, usable_space, smb_shares, nfs_exports, s3_buckets,
              phase, idx, cur, data_rows, calls, files, stdout, exit_status>>
fnVars == <<rows_in, dedup_out, pages_in, meta_out>>

\* ------------------------------------------------------------------ bounds
MaxExposures == 3   \* exposures the three listing calls return in total
MaxRows == 3        \* rows given to deduplicate_rows
MaxPages == 2       \* metadata pages of one path
MaxEntries == 2     \* entries of one metadata page

\* --------------------------------------------------------------- constants
ConnPort == 8000
UsageErrorStatus == 2
UncaughtStatus == 1
BytesPerGB == 1000000000

None == "None"

\* ------------------------------------------------------------- sequences
\* The sequences over S of length at most n.
SeqsUpTo(S, n) == UNION {[1..k -> S] : k \in 0..n}

\* -------------------------------------------------------------- rationals
RECURSIVE Gcd(_, _)
Gcd(a, b) == IF b = 0 THEN a ELSE Gcd(b, a % b)

Abs(x) == IF x < 0 THEN -x ELSE x

\* The normalised rational n/d, d # 0.
Rat(n, d) ==
    LET g == Gcd(Abs(n), Abs(d))
        s == IF d < 0 THEN -1 ELSE 1
    IN  [n |-> s * (n \div g), d |-> s * (d \div g)]

RatInt(k) == [n |-> k, d |-> 1]
RatAdd(x, y) == Rat(x.n * y.d + y.n * x.d, x.d * y.d)
RatMul(x, y) == Rat(x.n * y.n, x.d * y.d)
RatDiv(x, y) == Rat(x.n * y.d, x.d * y.n)
RatGt(x, y) == x.n * y.d > y.n * x.d

\* float(b) / 1e9
BytesToGB(b) == Rat(b, BytesPerGB)

\* f"{x:.3f}": x rounded to a whole number of thousandths (half to even).
Fmt3(x) ==
    LET t == x.n * 1000
        q == t \div x.d
        r == t % x.d
    IN  IF 2 * r > x.d \/ (2 * r = x.d /\ q % 2 = 1) THEN q + 1 ELSE q

\* ------------------------------------------------------------ Python dicts
DictHas(d, k) == \E i \in 1..Len(d) : d[i][1] = k
DictIndex(d, k) == CHOOSE i \in 1..Len(d) : d[i][1] = k
DictGet(d, k) == d[DictIndex(d, k)][2]
\* d[k] = v
DictSet(d, k, v) ==
    IF DictHas(d, k) THEN [d EXCEPT ![DictIndex(d, k)] = <<k, v>>]
    ELSE Append(d, <<k, v>>)
\* list(d.values())
DictValues(d) == [i \in 1..Len(d) |-> d[i][2]]

\* ------------------------------------------------------- get_user_metadata
\* A tag value as the API returns it: a str, or bytes that are valid UTF-8 or
\* not; text is the str itself, or the text the valid bytes encode.
StrValue(t) == [isbytes |-> FALSE, valid |-> TRUE, text |-> t]
BytesValue(t) == [isbytes |-> TRUE, valid |-> TRUE, text |-> t]
BadBytesValue == [isbytes |-> TRUE, valid |-> FALSE, text |-> "raw"]
ReplacementText == "U+FFFD"

\* value.decode("utf-8"), and on UnicodeDecodeError
\* value.decode("utf-8", errors="replace"); a str is kept.
DecodeValue(value) ==
    IF value.isbytes
    THEN IF value.valid THEN value.text ELSE ReplacementText
    ELSE value.text

\* A page the iterator yields: an object that may lack the data attribute,
\* whose data may be no dict, and whose data dict may lack "entries".
NoDataPage == [has_data |-> FALSE, data_is_dict |-> FALSE, has_entries |-> FALSE, entries |-> <<>>]
NonDictPage == [has_data |-> TRUE, data_is_dict |-> FALSE, has_entries |-> FALSE, entries |-> <<>>]
NoEntriesPage == [has_data |-> TRUE, data_is_dict |-> TRUE, has_entries |-> FALSE, entries |-> <<>>]
EntriesPage(es) == [has_data |-> TRUE, data_is_dict |-> TRUE, has_entries |-> TRUE, entries |-> es]

\* not hasattr(page, "data") or not isinstance(page.data, dict)
PageNoGuard(page) == FALSE
PageIsSkipped(page) == ~page.has_data \/ ~page.data_is_dict

\* page.data.get("entries", []): an AttributeError when page.data is missing
\* or has no get.
PageDataGetEntries(page) ==
    IF ~page.has_data \/ ~page.data_is_dict
    THEN [err |-> TRUE, entries |-> <<>>]
    ELSE [err |-> FALSE, entries |-> IF page.has_entries THEN page.entries ELSE <<>>]

\* The body of the inner for loop, for one record.
StoreFirstOnly(tags, record) ==
    IF record.key # None /\ ~DictHas(tags, record.key)
    THEN DictSet(tags, record.key, DecodeValue(record.value))
    ELSE tags
StoreRecord(tags, record) ==
    IF record.key # None
    THEN DictSet(tags, record.key, DecodeValue(record.value))
    ELSE tags

RECURSIVE StoreEntries(_, _)
StoreEntries(tags, entries) ==
    IF entries = <<>> THEN tags
    ELSE StoreEntries(StoreRecord(tags, Head(entries)), Tail(entries))

\* The outer for loop over the pages, from the tags collected so far.
RECURSIVE MetadataLoop(_, _)
MetadataLoop(tags, pages) ==
    IF pages = <<>> THEN [err |-> FALSE, tags |-> tags]
    ELSE IF PageIsSkipped(Head(pages)) THEN MetadataLoop(tags, Tail(pages))
    ELSE LET got == PageDataGetEntries(Head(pages))
         IN  IF got.err THEN [err |-> TRUE, tags |-> tags]
             ELSE MetadataLoop(StoreEntries(tags, got.entries), Tail(pages))

get_user_metadata(pages) == MetadataLoop(<<>>, pages)

\* --------------------------------------------------------- deduplicate_rows
\* f"{protocol}:{exposure_type}:{name}"
ExposureLabel(row) == <<row.protocol, ":", row.exposure_type, ":", row.name>>

NewEntry(row) ==
    [fs_path |-> row.fs_path, used_space |-> row.used_space,
     free_space |-> row.free_space, usable_space |-> row.usable_space,
     used_pct |-> row.used_pct, exposures |-> <<ExposureLabel(row)>>,
     tags |-> row.tags]

\* The body of the for loop of deduplicate_rows, for one row.
DedupOverwrite(dedup, row) ==
    IF DictHas(dedup, row.fs_path)
    THEN LET e == DictGet(dedup, row.fs_path)
         IN  DictSet(dedup, row.fs_path,
                     [NewEntry(row) EXCEPT !.exposures = Append(e.exposures, ExposureLabel(row))])
    ELSE DictSet(dedup, row.fs_path, NewEntry(row))
DedupNewFirst(dedup, row) ==
    IF DictHas(dedup, row.fs_path)
    THEN LET e == DictGet(dedup, row.fs_path)
         IN  DictSet(dedup, row.fs_path,
                     [e EXCEPT !.exposures = Append(e.exposures, ExposureLabel(row))])
    ELSE <<<<row.fs_path, NewEntry(row)>>>> \o dedup
DedupDropRepeat(dedup, row) ==
    IF DictHas(dedup, row.fs_path)
    THEN dedup
    ELSE DictSet(dedup, row.fs_path, NewEntry(row))
DedupStep(dedup, row) ==
    IF DictHas(dedup, row.fs_path)
    THEN LET e == DictGet(dedup, row.fs_path)
         IN  DictSet(dedup, row.fs_path,
                     [e EXCEPT !.exposures = Append(e.exposures, ExposureLabel(row))])
    ELSE DictSet(dedup, row.fs_path, NewEntry(row))

RECURSIVE DedupLoop(_, _)
DedupLoop(dedup, rows) ==
    IF rows = <<>> THEN dedup
    ELSE DedupLoop(DedupStep(dedup, Head(rows)), Tail(rows))

deduplicate_rows(data) == DictValues(DedupLoop(<<>>, data))

\* ------------------------------------------------------------ report files
Today == "YYYY-MM-DD"

EnumeratedHeader ==
    <<"Date", "Protocol", "Exposure Type", "Exposure Name", "Filesystem Path",
      "Path Used Space (GB)", "Cluster Free Space (GB)",
      "Cluster Usable Space (GB)", "Used %", "tags">>
DedupHeader ==
    <<"Date", "Filesystem Path", "Path Used Space (GB)", "Cluster Free Space (GB)",
      "Cluster Usable Space (GB)", "Used %", "Exposures", "tags">>

\* json.dumps(tags): the pairs of the dict in insertion order, as one cell.
JsonDumps(tags) == [json |-> tags]

\* sep.join(parts)
RECURSIVE Join(_, _)
Join(sep, parts) ==
    IF Len(parts) <= 1 THEN parts
    ELSE <<Head(parts), sep>> \o Join(sep, Tail(parts))

write_csv_enumerated(rows, date_str, output_filename) ==
    [name |-> output_filename,
     header |-> EnumeratedHeader,
     lines |-> [i \in 1..Len(rows) |->
                 <<date_str, rows[i].protocol, rows[i].exposure_type, rows[i].name,
                   rows[i].fs_path, Fmt3(rows[i].used_space), Fmt3(rows[i].free_space),
                   Fmt3(rows[i].usable_space), Fmt3(rows[i].used_pct),
                   JsonDumps(rows[i].tags)>>]]

write_csv_dedup(dedup_rows, date_str, output_filename) ==
    [name |-> output_filename,
     header |-> DedupHeader,
     lines |-> [i \in 1..Len(dedup_rows) |->
                 <<date_str, dedup_rows[i].fs_path, Fmt3(dedup_rows[i].used_space),
                   Fmt3(dedup_rows[i].free_space), Fmt3(dedup_rows[i].usable_space),
                   Fmt3(dedup_rows[i].used_pct), Join(", ", dedup_rows[i].exposures),
                   JsonDumps(dedup_rows[i].tags)>>]]

\* ------------------------------------------------------ main: configuration
\* load_config: the dict of the YAML file, {} when the file is absent or empty.
load_config(file) ==
    IF file.exists THEN (IF file.isnull THEN <<>> ELSE file.data) ELSE <<>>

\* config.get(key)
ConfigGet(config, key) == IF DictHas(config, key) THEN DictGet(config, key) ELSE None

\* Python truth of an optional string.
Truthy(s) == s # None /\ s # ""

\* cli if cli else config.get(key)
ResolvePreferConfig(cli, config, key) ==
    IF Truthy(ConfigGet(config, key)) THEN ConfigGet(config, key) ELSE cli
ResolveOption(cli, config, key) ==
    IF Truthy(cli) THEN cli ELSE ConfigGet(config, key)

\* not host or not access_token
MissingBoth(h, t) == ~Truthy(h) /\ ~Truthy(t)
MissingOption(h, t) == ~Truthy(h) \/ ~Truthy(t)

\* get_connection
get_connection(h, t) == [host |-> h, port |-> ConnPort, bearer_token |-> t]

\* The if/else that names the output file.
OutputNameSwapped(enumerate) ==
    IF enumerate THEN <<"qumulo_exposure_report_", Today, "_dedup.csv">>
    ELSE <<"qumulo_exposure_report_", Today, "_enumerated.csv">>
OutputName(enumerate) ==
    IF enumerate THEN <<"qumulo_exposure_report_", Today, "_enumerated.csv">>
    ELSE <<"qumulo_exposure_report_", Today, "_dedup.csv">>

\* --------------------------------------------------- process_exposure_item
\* The keyword arguments of the three call sites of process_exposure_item.
LoopParamsSlip(ph) ==
    IF ph = 1 THEN [protocol |-> "SMB", exposure_type |-> "Share",
                    name_key |-> "share_name", fs_path_key |-> "fs_path"]
    ELSE IF ph = 2 THEN [protocol |-> "NFS", exposure_type |-> "Share",
                         name_key |-> "export_path", fs_path_key |-> "fs_path"]
    ELSE [protocol |-> "S3", exposure_type |-> "Bucket",
          name_key |-> "name", fs_path_key |-> "path"]
LoopParams(ph) ==
    IF ph = 1 THEN [protocol |-> "SMB", exposure_type |-> "Share",
                    name_key |-> "share_name", fs_path_key |-> "fs_path"]
    ELSE IF ph = 2 THEN [protocol |-> "NFS", exposure_type |-> "Export",
                         name_key |-> "export_path", fs_path_key |-> "fs_path"]
    ELSE [protocol |-> "S3", exposure_type |-> "Bucket",
          name_key |-> "name", fs_path_key |-> "path"]

\* item[key] for a dict, getattr(item, key) for an object.
GetField(item, key) == IF item.isdict THEN item.f[key] ELSE item.f[key]

\* (used_space / (used_space + free_space)) * 100 if free_space > 0 else 0;
\* err is the ZeroDivisionError of the division.
UsedPctUsedGuard(used_space, free) ==
    IF RatGt(used_space, RatInt(0))
    THEN LET den == RatAdd(used_space, free)
         IN  IF den.n = 0 THEN [err |-> TRUE, val |-> RatInt(0)]
             ELSE [err |-> FALSE, val |-> RatMul(RatDiv(used_space, den), RatInt(100))]
    ELSE [err |-> FALSE, val |-> RatInt(0)]
UsedPct(used_space, free) ==
    IF RatGt(free, RatInt(0))
    THEN LET den == RatAdd(used_space, free)
         IN  IF den.n = 0 THEN [err |-> TRUE, val |-> RatInt(0)]
             ELSE [err |-> FALSE, val |-> RatMul(RatDiv(used_space, den), RatInt(100))]
    ELSE [err |-> FALSE, val |-> RatInt(0)]

\* The list process_exposure_item returns.
MakeRow(params, c, free, usable, tags_dict) ==
    [protocol |-> params.protocol, exposure_type |-> params.exposure_type,
     name |-> c.name, fs_path |-> c.fs_path, used_space |-> c.used_space,
     free_space |-> free, usable_space |-> usable, used_pct |-> c.used_pct,
     tags |-> tags_dict]

NoCur == [name |-> None, fs_path |-> None, used_space |-> RatInt(0), used_pct |-> RatInt(0)]

\* ------------------------------------------------------------ main: inputs
CliHosts == {None, "", "cli-host"}
CliTokens == {None, "", "cli-token"}
ConfigDicts ==
    { <<>>,
      << <<"host", "cfg-host">> >>,
      << <<"access_token", "cfg-token">> >>,
      << <<"host", "cfg-host">>, <<"access_token", "cfg-token">> >> }
ConfigFiles ==
    {[exists |-> FALSE, isnull |-> FALSE, data |-> <<>>],
     [exists |-> TRUE, isnull |-> TRUE, data |-> <<>>]}
    \cup {[exists |-> TRUE, isnull |-> FALSE, data |-> d] : d \in ConfigDicts}

\* Records the listing calls return: dicts for shares and exports, objects
\* for buckets.
ShareItems ==
    {[isdict |-> TRUE, f |-> [share_name |-> "eng", fs_path |-> "/eng"]],
     [isdict |-> TRUE, f |-> [share_name |-> "a", fs_path |-> "/shared"]]}
ExportItems ==
    {[isdict |-> TRUE, f |-> [export_path |-> "/b", fs_path |-> "/shared"]],
     [isdict |-> TRUE, f |-> [export_path |-> "/eng", fs_path |-> "/eng"]]}
BucketItems ==
    {[isdict |-> FALSE, f |-> [name |-> "bkt", path |-> "/shared"]],
     [isdict |-> FALSE, f |-> [name |-> "logs", path |-> "/logs"]]}

\* Byte counts the capacity calls return: the usage of the path that several
\* exposures share changes while the run goes on, the others are steady.
UsedBytes(path) ==
    IF path = "/shared" THEN {0, BytesPerGB}
    ELSE IF path = "/eng" THEN {BytesPerGB} ELSE {0}
FreeBytes == {0, 2 * BytesPerGB}
TotalBytes == {2 * BytesPerGB}

\* The pages the metadata call returns for a path in a run of main: the tags
\* set on the cluster's directories, fixed for the run.
ClusterMetadata(path) ==
    IF path = "/eng" THEN <<>>
    ELSE IF path = "/shared"
    THEN <<NoDataPage, EntriesPage(<<[key |-> "owner", value |-> BytesValue("ops")]>>)>>
    ELSE <<NonDictPage, NoEntriesPage>>

\* ------------------------------------------------------- main: call log
\* A call: the SDK function, the loop and iteration it is made in, its path.
StatsCall == [fn |-> "read_fs_stats", phase |-> 0, idx |-> 0, path |-> None]
ListCallSwapped(ph) ==
    [fn |-> IF ph = 1 THEN "smb_list_shares"
            ELSE IF ph = 2 THEN "list_buckets" ELSE "nfs_list_exports",
     phase |-> ph, idx |-> 0, path |-> None]
ListCall(ph) ==
    [fn |-> IF ph = 1 THEN "smb_list_shares"
            ELSE IF ph = 2 THEN "nfs_list_exports" ELSE "list_buckets",
     phase |-> ph, idx |-> 0, path |-> None]
CapacityCall(ph, i, path) ==
    [fn |-> "read_dir_aggregates", phase |-> ph, idx |-> i, path |-> path]
MetadataCall(ph, i, path) ==
    [fn |-> "list_user_metadata", phase |-> ph, idx |-> i, path |-> path]

Logged(call, ok) ==
    Append(calls, [fn |-> call.fn, phase |-> call.phase, idx |-> call.idx,
                   path |-> call.path, ok |-> ok])

\* The list the running for loop iterates.
CurrentList ==
    IF phase = 1 THEN smb_shares ELSE IF phase = 2 THEN nfs_exports ELSE s3_buckets

\* The external call main is about to make.
PendingCall ==
    IF pc = "stats" THEN StatsCall
    ELSE IF pc = "list" THEN ListCall(phase)
    ELSE IF pc = "capacity"
    THEN CapacityCall(phase, idx, GetField(CurrentList[idx], LoopParams(phase).fs_path_key))
    ELSE MetadataCall(phase, idx, cur.fs_path)

\* Where main continues when the for loop of phase ph is exhausted.
AfterLoop(ph) == IF ph < 3 THEN "list" ELSE "write"

\* An uncaught exception: where main goes from there.
RaiseSwallowed(at) ==
    IF at = "stats" THEN "list" ELSE IF at = "list" THEN "write"
    ELSE IF at = "capacity" THEN "write" ELSE "write"
Raise(at) == "failed"

\* ------------------------------------------------------------ main: steps
Idle(p) ==
    /\ pc = p
    /\ host = None /\ access_token = None /\ conn = <<>> /\ output_csv = <<>>
    /\ free_space = RatInt(0) /\ usable_space = RatInt(0)
    /\ smb_shares = <<>> /\ nfs_exports = <<>> /\ s3_buckets = <<>>
    /\ phase = 0 /\ idx = 0 /\ cur = NoCur /\ data_rows = <<>>
    /\ calls = <<>> /\ files = <<>> /\ stdout = <<>> /\ exit_status = <<>>

Init ==
    /\ Idle("start")
    /\ args \in [host : CliHosts, access_token : CliTokens, enumerate_exposures : BOOLEAN]
    /\ config_file \in ConfigFiles
    /\ rows_in = <<>> /\ dedup_out = <<>> /\ pages_in = <<>>
    /\ meta_out = [err |-> FALSE, tags |-> <<>>]

\* From parse_args to the choice of output_csv: resolve host and token, stop
\* with parser.error when one is missing, else create the connection.
Configure ==
    /\ pc = "start"
    /\ LET config == load_config(config_file)
           h == ResolveOption(args.host, config, "host")
           t == ResolveOption(args.access_token, config, "access_token")
       IN  /\ host' = h
           /\ access_token' = t
           /\ IF MissingOption(h, t)
              THEN /\ pc' = "usage_error"
                   /\ exit_status' = <<UsageErrorStatus>>
                   /\ UNCHANGED <<conn, output_csv>>
              ELSE /\ pc' = "stats"
                   /\ conn' = <<get_connection(h, t)>>
                   /\ output_csv' = OutputName(args.enumerate_exposures)
                   /\ UNCHANGED exit_status
    /\ UNCHANGED <<args, config_file, free_space, usable_space, smb_shares,
                   nfs_exports, s3_buckets, phase, idx, cur, data_rows, calls,
                   files, stdout>>
    /\ UNCHANGED fnVars

\* get_cluster_stats, and data_rows = [].
GetClusterStats ==
    /\ pc = "stats"
    /\ \E fb \in FreeBytes, tb \in TotalBytes :
          /\ free_space' = BytesToGB(fb)
          /\ usable_space' = BytesToGB(tb)
    /\ calls' = Logged(StatsCall, TRUE)
    /\ data_rows' = <<>>
    /\ phase' = 1
    /\ pc' = "list"
    /\ UNCHANGED <<args, config_file, host, access_token, conn, output_csv,
                   smb_shares, nfs_exports, s3_buckets, idx, cur, files, stdout,
                   exit_status>>
    /\ UNCHANGED fnVars

\* After a listing call returned lst: enter its for loop, or skip it when
\* the list is empty.
EnterLoop(lst) ==
    /\ calls' = Logged(ListCall(phase), TRUE)
    /\ IF lst = <<>>
       THEN /\ pc' = AfterLoop(phase)
            /\ phase' = IF phase < 3 THEN phase + 1 ELSE phase
            /\ idx' = 0
       ELSE /\ pc' = "capacity"
            /\ phase' = phase
            /\ idx' = 1
    /\ UNCHANGED <<args, config_file, host, access_token, conn, output_csv,
                   free_space, usable_space, cur, data_rows, files, stdout,
                   exit_status>>
    /\ UNCHANGED fnVars

\* get_smb_shares
ListShares ==
    /\ pc = "list" /\ phase = 1
    /\ \E lst \in SeqsUpTo(ShareItems, MaxExposures - Len(data_rows)) :
          /\ smb_shares' = lst
          /\ EnterLoop(lst)
    /\ UNCHANGED <<nfs_exports, s3_buckets>>

\* get_nfs_exports
ListExports ==
    /\ pc = "list" /\ phase = 2
    /\ \E lst \in SeqsUpTo(ExportItems, MaxExposures - Len(data_rows)) :
          /\ nfs_exports' = lst
          /\ EnterLoop(lst)
    /\ UNCHANGED <<smb_shares, s3_buckets>>

\* get_s3_buckets
ListBuckets ==
    /\ pc = "list" /\ phase = 3
    /\ \E lst \in SeqsUpTo(BucketItems, MaxExposures - Len(data_rows)) :
          /\ s3_buckets' = lst
          /\ EnterLoop(lst)
    /\ UNCHANGED <<smb_shares, nfs_exports>>

\* process_exposure_item up to and including the used_pct line: the field
\* lookups, get_directory_capacity, used_pct.
ReadCapacity ==
    /\ pc = "capacity"
    /\ LET item == CurrentList[idx]
           p == LoopParams(phase)
       IN  \E b \in UsedBytes(GetField(item, p.fs_path_key)) :
             LET used == BytesToGB(b)
                 pct == UsedPct(used, free_space)
             IN  /\ calls' = Logged(CapacityCall(phase, idx, GetField(item, p.fs_path_key)), TRUE)
                 /\ IF pct.err
                    THEN /\ pc' = Raise("used_pct")
                         /\ exit_status' = <<UncaughtStatus>>
                         /\ cur' = cur
                    ELSE /\ pc' = "metadata"
                         /\ exit_status' = exit_status
                         /\ cur' = [name |-> GetField(item, p.name_key),
                                    fs_path |-> GetField(item, p.fs_path_key),
                                    used_space |-> used, used_pct |-> pct.val]
    /\ UNCHANGED <<args, config_file, host, access_token, conn, output_csv,
                   free_space, usable_space, smb_shares, nfs_exports, s3_buckets,
                   phase, idx, data_rows, files, stdout>>
    /\ UNCHANGED fnVars

\* The rest of process_exposure_item (get_user_metadata, the returned row),
\* data_rows.append(row), and the step of the for loop.
ReadMetadata ==
    /\ pc = "metadata"
    /\ \E pages \in {ClusterMetadata(cur.fs_path)} :
         LET got == get_user_metadata(pages)
         IN  /\ calls' = Logged(MetadataCall(phase, idx, cur.fs_path), TRUE)
             /\ IF got.err
                THEN /\ pc' = Raise("metadata")
                     /\ exit_status' = <<UncaughtStatus>>
                     /\ UNCHANGED <<data_rows, idx, phase, cur>>
                ELSE /\ data_rows' = Append(data_rows,
                            MakeRow(LoopParams(phase), cur, free_space, usable_space, got.tags))
                     /\ cur' = NoCur
                     /\ exit_status' = exit_status
                     /\ IF idx < Len(CurrentList)
                        THEN /\ idx' = idx + 1
                             /\ phase' = phase
                             /\ pc' = "capacity"
                        ELSE /\ idx' = 0
                             /\ phase' = IF phase < 3 THEN phase + 1 ELSE phase
                             /\ pc' = AfterLoop(phase)
    /\ UNCHANGED <<args, config_file, host, access_token, conn, output_csv,
                   free_space, usable_space, smb_shares, nfs_exports, s3_buckets,
                   files, stdout>>
    /\ UNCHANGED fnVars

\* An external call raises: nothing catches it, the run ends.
CallFails ==
    /\ pc \in {"stats", "list", "capacity", "metadata"}
    /\ calls' = Logged(PendingCall, FALSE)
    /\ pc' = Raise(pc)
    /\ exit_status' = IF Raise(pc) = "failed" THEN <<UncaughtStatus>> ELSE exit_status
    /\ UNCHANGED <<args, config_file, host, access_token, conn, output_csv,
                   free_space, usable_space, smb_shares, nfs_exports, s3_buckets,
                   phase, idx, cur, data_rows, files, stdout>>
    /\ UNCHANGED fnVars

\* The CSV output, the two prints, and the normal end of the process.
WriteReport ==
    /\ pc = "write"
    /\ files' = Append(files,
          IF args.enumerate_exposures
          THEN write_csv_enumerated(data_rows, Today, output_csv)
          ELSE write_csv_dedup(deduplicate_rows(data_rows), Today, output_csv))
    /\ stdout' = <<<<"Report written to", output_csv>>,
                   <<"Summary", Len(smb_shares), Len(nfs_exports), Len(s3_buckets),
                     Len(smb_shares) + Len(nfs_exports) + Len(s3_buckets)>>>>
    /\ pc' = "done"
    /\ exit_status' = <<0>>
    /\ UNCHANGED <<args, config_file, host, access_token, conn, output_csv,
                   free_space, usable_space, smb_shares, nfs_exports, s3_buckets,
                   phase, idx, cur, data_rows, calls>>
    /\ UNCHANGED fnVars

Next ==
    \/ Configure
    \/ GetClusterStats
    \/ ListShares
    \/ ListExports
    \/ ListBuckets
    \/ ReadCapacity
    \/ ReadMetadata
    \/ CallFails
    \/ WriteReport

Spec == Init /\ [][Next]_vars

\* ------------------------------------------- deduplicate_rows on its own
DedupLabels == {<<"SMB", "Share">>, <<"NFS", "Export">>, <<"S3", "Bucket">>}
DedupNames == {"a", "b"}
DedupPaths == {"/p", "/q"}
\* Two sets of capacity figures and tags that differ in every field.
DedupFigures ==
    {[used_space |-> RatInt(1), free_space |-> RatInt(2), usable_space |-> RatInt(4),
      used_pct |-> Rat(100, 3), tags |-> <<>>],
     [used_space |-> RatInt(2), free_space |-> RatInt(0), usable_space |-> RatInt(3),
      used_pct |-> RatInt(0), tags |-> << <<"owner", "ops">> >>]}
DedupRows ==
    {[protocol |-> l[1], exposure_type |-> l[2], name |-> n, fs_path |-> p,
      used_space |-> g.used_space, free_space |-> g.free_space,
      usable_space |-> g.usable_space, used_pct |-> g.used_pct, tags |-> g.tags] :
        l \in DedupLabels, n \in DedupNames, p \in DedupPaths, g \in DedupFigures}

NoArgs == [host |-> None, access_token |-> None, enumerate_exposures |-> FALSE]
NoFile == [exists |-> FALSE, isnull |-> FALSE, data |-> <<>>]

InitDedup ==
    /\ Idle("dedup_call")
    /\ args = NoArgs /\ config_file = NoFile
    /\ rows_in \in SeqsUpTo(DedupRows, MaxRows)
    /\ dedup_out = <<>> /\ pages_in = <<>>
    /\ meta_out = [err |-> FALSE, tags |-> <<>>]

CallDedup ==
    /\ pc = "dedup_call"
    /\ dedup_out' = deduplicate_rows(rows_in)
    /\ pc' = "dedup_done"
    /\ UNCHANGED <<rows_in, pages_in, meta_out>>
    /\ UNCHANGED mainVars

SpecDedup == InitDedup /\ [][CallDedup]_vars

\* ------------------------------------------ get_user_metadata on its own
MetaRecords ==
    {[key |-> None, value |-> StrValue("v")],
     [key |-> "k1", value |-> StrValue("v")],
     [key |-> "k1", value |-> BytesValue("w")],
     [key |-> "k2", value |-> BadBytesValue]}
MetaPages ==
    {NoDataPage, NonDictPage, NoEntriesPage}
    \cup {EntriesPage(es) : es \in SeqsUpTo(MetaRecords, MaxEntries)}

InitMeta ==
    /\ Idle("meta_call")
    /\ args = NoArgs /\ config_file = NoFile
    /\ rows_in = <<>> /\ dedup_out = <<>>
    /\ pages_in \in SeqsUpTo(MetaPages, MaxPages)
    /\ meta_out = [err |-> FALSE, tags |-> <<>>]

CallMetadata ==
    /\ pc = "meta_call"
    /\ meta_out' = get_user_metadata(pages_in)
    /\ pc' = "meta_done"
    /\ UNCHANGED <<rows_in, dedup_out, pages_in>>
    /\ UNCHANGED mainVars

SpecMeta == InitMeta /\ [][CallMetadata]_vars

\* ==================================================================== claims
\* Helpers of the properties below.
RatGe0(x) == x.n >= 0 /\ x.d > 0
IsPrefix(a, b) == Len(a) <= Len(b) /\ \A i \in 1..Len(a) : a[i] = b[i]
Range(f) == {f[i] : i \in DOMAIN f}
RECURSIVE SumLens(_)
SumLens(entries) ==
    IF entries = <<>> THEN 0 ELSE Len(Head(entries).exposures) + SumLens(Tail(entries))
PathsOf(rows) == {rows[j].fs_path : j \in 1..Len(rows)}
FirstAt(rows, path) ==
    CHOOSE j \in 1..Len(rows) :
        rows[j].fs_path = path /\ \A k \in 1..(j - 1) : rows[k].fs_path # path
RowsAt(rows, path) == SelectSeq(rows, LAMBDA r : r.fs_path = path)
LabelsAt(rows, path) ==
    [i \in 1..Len(RowsAt(rows, path)) |->
        <<RowsAt(rows, path)[i].protocol, ":", RowsAt(rows, path)[i].exposure_type,
          ":", RowsAt(rows, path)[i].name>>]

\* ----------------------------------------------------------------------- C1
\* C1: a completed run in enumerated mode hands write_csv_enumerated exactly
\* N+M+K rows: first the N shares labelled (SMB, Share), then the M exports
\* labelled (NFS, Export), then the K buckets labelled (S3, Bucket), each in
\* listing order, row i carrying the name and fs_path of the i-th record; the
\* file has one line per row with the same labels, name and path.
C1_EnumeratedRowsInSourceOrder ==
    (pc = "done" /\ args.enumerate_exposures) =>
        LET N == Len(smb_shares)
            M == Len(nfs_exports)
            K == Len(s3_buckets)
        IN  /\ Len(data_rows) = N + M + K
            /\ \A i \in 1..N :
                 /\ data_rows[i].protocol = "SMB"
                 /\ data_rows[i].exposure_type = "Share"
                 /\ data_rows[i].name = smb_shares[i].f.share_name
                 /\ data_rows[i].fs_path = smb_shares[i].f.fs_path
            /\ \A i \in 1..M :
                 /\ data_rows[N + i].protocol = "NFS"
                 /\ data_rows[N + i].exposure_type = "Export"
                 /\ data_rows[N + i].name = nfs_exports[i].f.export_path
                 /\ data_rows[N + i].fs_path = nfs_exports[i].f.fs_path
            /\ \A i \in 1..K :
                 /\ data_rows[N + M + i].protocol = "S3"
                 /\ data_rows[N + M + i].exposure_type = "Bucket"
                 /\ data_rows[N + M + i].name = s3_buckets[i].f.name
                 /\ data_rows[N + M + i].fs_path = s3_buckets[i].f.path
            /\ Len(files) = 1
            /\ Len(files[1].lines) = N + M + K
            /\ \A i \in 1..(N + M + K) :
                 /\ files[1].lines[i][2] = data_rows[i].protocol
                 /\ files[1].lines[i][3] = data_rows[i].exposure_type
                 /\ files[1].lines[i][4] = data_rows[i].name
                 /\ files[1].lines[i][5] = data_rows[i].fs_path

C1_Witness ==
    /\ pc = "done" /\ args.enumerate_exposures
    /\ Len(smb_shares) = 1 /\ Len(nfs_exports) = 1 /\ Len(s3_buckets) = 1
    /\ Len(files) = 1 /\ Len(files[1].lines) = 3

\* ----------------------------------------------------------------------- C2
\* C2: deduplicate_rows returns exactly one entry per distinct fs_path of its
\* input; the entry's exposures are the labels protocol:exposure_type:name of
\* all input rows with that path, in input order; its capacity figures and
\* tags are those of the first input row with that path, whatever later rows
\* with the same path carry.
C2_DedupOneEntryPerPathFirstWins ==
    pc = "dedup_done" =>
        /\ {dedup_out[i].fs_path : i \in 1..Len(dedup_out)} = PathsOf(rows_in)
        /\ \A i, j \in 1..Len(dedup_out) :
             dedup_out[i].fs_path = dedup_out[j].fs_path => i = j
        /\ \A i \in 1..Len(dedup_out) :
             LET e == dedup_out[i]
                 first == rows_in[FirstAt(rows_in, e.fs_path)]
             IN  /\ e.exposures = LabelsAt(rows_in, e.fs_path)
                 /\ e.used_space = first.used_space
                 /\ e.free_space = first.free_space
                 /\ e.usable_space = first.usable_space
                 /\ e.used_pct = first.used_pct
                 /\ e.tags = first.tags

C2_Witness ==
    /\ pc = "dedup_done"
    /\ \E j, k \in 1..Len(rows_in) :
         /\ j < k
         /\ rows_in[j].fs_path = rows_in[k].fs_path
         /\ rows_in[j].used_space # rows_in[k].used_space
         /\ rows_in[j].tags # rows_in[k].tags
         /\ \E i \in 1..Len(dedup_out) :
              /\ dedup_out[i].fs_path = rows_in[j].fs_path
              /\ Len(dedup_out[i].exposures) >= 2

\* ----------------------------------------------------------------------- C3
\* C3: every row built by process_exposure_item has used_pct equal to
\* used_space / (used_space + free_space) * 100 when free_space > 0 and equal
\* to 0 when free_space <= 0; used_pct is never negative, and its computation
\* never divides by zero (a run only fails at a failed external call).
C3_PctOf(r) ==
    /\ RatGe0(r.used_pct)
    /\ r.free_space.n > 0 =>
         /\ RatAdd(r.used_space, r.free_space).n # 0
         /\ RatMul(r.used_pct, RatAdd(r.used_space, r.free_space))
              = RatMul(r.used_space, RatInt(100))
    /\ r.free_space.n <= 0 => r.used_pct = RatInt(0)
C3_UsedPct ==
    /\ \A i \in 1..Len(data_rows) : C3_PctOf(data_rows[i])
    /\ pc = "metadata" =>
         C3_PctOf([used_pct |-> cur.used_pct, used_space |-> cur.used_space,
                   free_space |-> free_space])
    /\ pc = "failed" => (calls # <<>> /\ ~calls[Len(calls)].ok)

C3_Witness ==
    /\ Len(data_rows) >= 2
    /\ data_rows[1].used_pct = Rat(100, 3)
    /\ data_rows[2].used_pct = RatInt(0)
    /\ data_rows[1].free_space.n > 0

\* ----------------------------------------------------------------------- C4
\* C4: the report file is opened only after the stats call, the three
\* listing calls and the capacity and metadata call of every exposure have
\* completed; when an external call fails it is the last call made (no
\* retry, nothing after it), the run has ended with an error, and no file
\* has been created.
C4_NoReportUnlessAllCallsSucceed ==
    /\ files # <<>> =>
         /\ Len(calls) = 4 + 2 * (Len(smb_shares) + Len(nfs_exports) + Len(s3_buckets))
         /\ \A i \in 1..Len(calls) : calls[i].ok
         /\ Len(data_rows) = Len(smb_shares) + Len(nfs_exports) + Len(s3_buckets)
    /\ \A i \in 1..Len(calls) :
         ~calls[i].ok =>
            /\ i = Len(calls)
            /\ pc = "failed"
            /\ exit_status = <<UncaughtStatus>>
            /\ files = <<>>
    /\ pc = "failed" => files = <<>>

C4_Witness ==
    /\ pc = "failed" /\ files = <<>>
    /\ Len(calls) = 6
    /\ ~calls[6].ok /\ calls[6].fn = "list_user_metadata"
    /\ Len(data_rows) = 1

\* ----------------------------------------------------------------------- C5
\* The value of a key of the configuration file, None when the file or the
\* key is absent.
C5_FileValue(key) ==
    IF config_file.exists /\ ~config_file.isnull
       /\ \E i \in 1..Len(config_file.data) : config_file.data[i][1] = key
    THEN config_file.data[CHOOSE i \in 1..Len(config_file.data) :
                            config_file.data[i][1] = key][2]
    ELSE None
C5_Ended ==
    /\ pc = "usage_error"
    /\ exit_status = <<UsageErrorStatus>>
    /\ conn = <<>> /\ calls = <<>> /\ files = <<>>

\* C5 as stated: host and token are each the CLI value when one is given,
\* else the configuration file's value; when host or token is missing after
\* that, the run ends with a usage error before any connection, call or file.
C5_Original ==
    pc # "start" =>
        /\ host = IF args.host # None THEN args.host ELSE C5_FileValue("host")
        /\ access_token = IF args.access_token # None THEN args.access_token
                          ELSE C5_FileValue("access_token")
        /\ (host \in {None, ""} \/ access_token \in {None, ""}) => C5_Ended

\* C5 as amended: host and token are each the CLI value when one is given and
\* is not the empty string, else the configuration file's value; when host or
\* token is missing (absent or empty) after that, the run ends with a non-zero
\* usage error before a connection is created or any call is made, and no
\* file is written.
C5_ResolutionAndUsageError ==
    pc # "start" =>
        /\ host = IF args.host \notin {None, ""} THEN args.host
                  ELSE C5_FileValue("host")
        /\ access_token = IF args.access_token \notin {None, ""} THEN args.access_token
                          ELSE C5_FileValue("access_token")
        /\ (host \in {None, ""} \/ access_token \in {None, ""}) =>
              (C5_Ended /\ UsageErrorStatus # 0)
        /\ pc = "usage_error" => (host \in {None, ""} \/ access_token \in {None, ""})

C5_Witness ==
    /\ pc = "usage_error"
    /\ args.host = "" /\ host = "cfg-host"
    /\ args.access_token = None /\ access_token = None
    /\ exit_status = <<UsageErrorStatus>> /\ files = <<>> /\ calls = <<>>

\* ----------------------------------------------------------------------- C6
\* C6: the entries deduplicate_rows returns are in the order in which their
\* paths first occur in the input: entry A is before entry B exactly when the
\* first row with A's path is before the first row with B's path.
C6_DedupOrderIsFirstSeen ==
    pc = "dedup_done" =>
        \A i, j \in 1..Len(dedup_out) :
            (i < j) <=> (FirstAt(rows_in, dedup_out[i].fs_path)
                           < FirstAt(rows_in, dedup_out[j].fs_path))

C6_Witness ==
    /\ pc = "dedup_done"
    /\ Len(rows_in) = 3 /\ Len(dedup_out) = 2
    /\ rows_in[1].fs_path = "/q" /\ rows_in[2].fs_path = "/p" /\ rows_in[3].fs_path = "/q"
    /\ dedup_out[1].fs_path = "/q" /\ dedup_out[2].fs_path = "/p"

\* ----------------------------------------------------------------------- C7
\* C7: a completed run has written exactly one file, and no run writes more
\* than one; with --enumerate-exposures the file is named ..._enumerated.csv
\* and holds one line per raw row, without it the file is named ..._dedup.csv
\* and holds one line per distinct path of the rows, in first-seen order.
C7_OneReportModeAgrees ==
    /\ Len(files) <= 1
    /\ files # <<>> => pc = "done"
    /\ pc = "done" =>
         /\ Len(files) = 1
         /\ files[1].name = output_csv
         /\ IF args.enumerate_exposures
            THEN /\ files[1].name[3] = "_enumerated.csv"
                 /\ files[1].header = EnumeratedHeader
                 /\ Len(files[1].lines) = Len(data_rows)
                 /\ \A i \in 1..Len(data_rows) :
                      /\ Len(files[1].lines[i]) = 10
                      /\ files[1].lines[i][5] = data_rows[i].fs_path
            ELSE /\ files[1].name[3] = "_dedup.csv"
                 /\ files[1].header = DedupHeader
                 /\ Len(files[1].lines) = Cardinality(PathsOf(data_rows))
                 /\ \A i \in 1..Len(files[1].lines) :
                      /\ Len(files[1].lines[i]) = 8
                      /\ files[1].lines[i][2] \in PathsOf(data_rows)
                      /\ \A j \in 1..Len(files[1].lines) :
                           files[1].lines[i][2] = files[1].lines[j][2] => i = j

C7_Witness ==
    /\ pc = "done" /\ ~args.enumerate_exposures
    /\ Len(files) = 1 /\ files[1].name[3] = "_dedup.csv"
    /\ Len(data_rows) = 3 /\ Len(files[1].lines) = 2

\* ----------------------------------------------------------------------- C8
\* The calls of a whole run over the lists fetched so far, in program order.
C8_ItemCalls(ph, lst, pathKey) ==
    [i \in 1..(2 * Len(lst)) |->
        [fn |-> IF i % 2 = 1 THEN "read_dir_aggregates" ELSE "list_user_metadata",
         phase |-> ph, idx |-> (i + 1) \div 2,
         path |-> lst[(i + 1) \div 2].f[pathKey]]]
C8_Expected ==
    <<[fn |-> "read_fs_stats", phase |-> 0, idx |-> 0, path |-> None],
      [fn |-> "smb_list_shares", phase |-> 1, idx |-> 0, path |-> None]>>
    \o C8_ItemCalls(1, smb_shares, "fs_path")
    \o <<[fn |-> "nfs_list_exports", phase |-> 2, idx |-> 0, path |-> None]>>
    \o C8_ItemCalls(2, nfs_exports, "fs_path")
    \o <<[fn |-> "list_buckets", phase |-> 3, idx |-> 0, path |-> None]>>
    \o C8_ItemCalls(3, s3_buckets, "path")
C8_Made ==
    [i \in 1..Len(calls) |->
        [fn |-> calls[i].fn, phase |-> calls[i].phase, idx |-> calls[i].idx,
         path |-> calls[i].path]]

\* C8: the external calls of a run are made in one fixed order: the stats
\* call once and first, then the share listing and for each share its
\* capacity call followed by its metadata call, then the same for the exports,
\* then for the buckets; the calls made so far are always a prefix of that
\* order, a run that is past the stats call has made it exactly once, and a
\* completed run has made all the calls.
C8_CallsInFixedOrder ==
    /\ IsPrefix(C8_Made, C8_Expected)
    /\ pc = "done" => Len(calls) = Len(C8_Expected)
    /\ Cardinality({i \in 1..Len(calls) : calls[i].fn = "read_fs_stats"}) <= 1
    /\ pc \in {"list", "capacity", "metadata", "write", "done"} =>
         Cardinality({i \in 1..Len(calls) : calls[i].fn = "read_fs_stats"}) = 1

C8_Witness ==
    /\ pc = "done"
    /\ Len(smb_shares) = 2 /\ Len(nfs_exports) = 0 /\ Len(s3_buckets) = 1
    /\ Len(calls) = 10
    /\ calls[3].fn = "read_dir_aggregates" /\ calls[4].fn = "list_user_metadata"
    /\ calls[7].fn = "nfs_list_exports" /\ calls[8].fn = "list_buckets"

\* ----------------------------------------------------------------------- C9
\* The entries of the well-formed pages, in page order and entry order.
RECURSIVE C9_Flat(_)
C9_Flat(pages) ==
    IF pages = <<>> THEN <<>>
    ELSE (IF Head(pages).has_data /\ Head(pages).data_is_dict /\ Head(pages).has_entries
          THEN Head(pages).entries ELSE <<>>) \o C9_Flat(Tail(pages))
C9_Keys(flat) == {flat[i].key : i \in 1..Len(flat)} \ {None}
C9_Last(flat, k) ==
    CHOOSE i \in 1..Len(flat) :
        flat[i].key = k /\ \A j \in (i + 1)..Len(flat) : flat[j].key # k
C9_Text(value) ==
    IF ~value.isbytes THEN value.text
    ELSE IF value.valid THEN value.text ELSE "U+FFFD"

\* C9: get_user_metadata returns without error, for every page sequence, the
\* mapping whose keys are the non-null keys of the entries of the well-formed
\* pages and whose value for a key is that of the last such entry (bytes
\* decoded to text); pages without a data mapping contribute nothing and do
\* not stop later pages; with no such entry the mapping is empty.
C9_TagsOfWellFormedPages ==
    pc = "meta_done" =>
        LET flat == C9_Flat(pages_in)
            tags == meta_out.tags
        IN  /\ ~meta_out.err
            /\ {tags[i][1] : i \in 1..Len(tags)} = C9_Keys(flat)
            /\ Len(tags) = Cardinality(C9_Keys(flat))
            /\ \A i \in 1..Len(tags) :
                 tags[i][2] = C9_Text(flat[C9_Last(flat, tags[i][1])].value)

C9_Witness ==
    /\ pc = "meta_done" /\ ~meta_out.err
    /\ Len(pages_in) = 2
    /\ ~pages_in[1].has_data
    /\ pages_in[2].has_entries /\ Len(pages_in[2].entries) = 2
    /\ pages_in[2].entries[1].key = "k1" /\ pages_in[2].entries[2].key = "k1"
    /\ pages_in[2].entries[1].value # pages_in[2].entries[2].value
    /\ meta_out.tags = << <<"k1", "w">> >>

\* ---------------------------------------------------------------------- C10
\* C10: deduplicate_rows neither loses nor duplicates exposures: the lengths
\* of the exposures lists add up to the number of input rows, every entry
\* holds as many labels as there are input rows with its path and every input
\* row's label is in the entry of its path, and there are at most as many
\* entries as input rows, exactly as many when all input paths are distinct.
C10_DedupConservesExposures ==
    pc = "dedup_done" =>
        /\ SumLens(dedup_out) = Len(rows_in)
        /\ \A i \in 1..Len(dedup_out) :
             Len(dedup_out[i].exposures) = Len(RowsAt(rows_in, dedup_out[i].fs_path))
        /\ \A j \in 1..Len(rows_in) :
             \E i \in 1..Len(dedup_out) :
                /\ dedup_out[i].fs_path = rows_in[j].fs_path
                /\ <<rows_in[j].protocol, ":", rows_in[j].exposure_type, ":",
                     rows_in[j].name>> \in Range(dedup_out[i].exposures)
        /\ Len(dedup_out) <= Len(rows_in)
        /\ (Len(dedup_out) = Len(rows_in))
             <=> (\A j, k \in 1..Len(rows_in) :
                     rows_in[j].fs_path = rows_in[k].fs_path => j = k)

C10_Witness ==
    /\ pc = "dedup_done"
    /\ Len(rows_in) = 3 /\ Len(dedup_out) = 1
    /\ Len(dedup_out[1].exposures) = 3

====
